---- MODULE Spec2Model ----
(***************************************************************************)
(* A model of prepare_ligands.py: the batch driver main, the SMILES->PDB   *)
(* conversion, the three-strategy PDB->PDBQT fallback and the              *)
(* repositioning of a PDBQT file onto a grid centre.                       *)
(*                                                                         *)
(* Text is modelled as sequences of one-character strings, files as       *)
(* sequences of lines, the file system as a function from paths to file   *)
(* contents.  Coordinates are exact integers in thousandths; the quotient *)
(* of the centroid is kept exact by carrying the atom count as a         *)
(* denominator, and the writer's %8.3f rounds it to a thousandth.         *)
(***************************************************************************)
EXTENDS Integers, Sequences, FiniteSets, TLC

VARIABLES
    pc,                 \* position of the program
    fs,                 \* the file system: path -> content (a sequence of lines)
    pool,               \* the contents an external converter may leave in its output file
    pdb_file,           \* convert_pdb_to_pdbqt: parameter
    pdbqt_file,         \* convert_pdb_to_pdbqt: parameter
    tried,              \* convert_pdb_to_pdbqt: the subprocess.run calls made so far
    convRet,            \* convert_pdb_to_pdbqt: "none" | "True" | "False" | "raised"
    input_file,         \* reposition_ligand: parameter
    output_file,        \* reposition_ligand: parameter
    target,             \* reposition_ligand: <<target_x, target_y, target_z>>, thousandths
    lines,              \* reposition_ligand: local list of lines
    coords,             \* reposition_ligand: local list of [x, y, z]
    atom_line_indices,  \* reposition_ligand: local list of line numbers (1-based here)
    trans,              \* reposition_ligand: (trans_x, trans_y, trans_z) as num[ax] / den
    reposRet,           \* reposition_ligand: "none" | "True" | "False"
    smiles_lines,       \* main: the lines of args.smiles_file
    line_num,           \* main: number of lines read so far
    grid,               \* main: <<args.grid_x, args.grid_y, args.grid_z>>, thousandths
    name,               \* main: resolved name of the current molecule
    smiles,             \* main: SMILES token of the current molecule
    smilesRet,          \* main: what convert_smiles_to_pdb returned for the current
                        \* molecule, "none" | "True" | "False" | "raised"
    success_count,      \* main
    total_count         \* main

convVars  == <<pdb_file, pdbqt_file, tried, convRet>>
reposVars == <<input_file, output_file, target, lines, coords, atom_line_indices,
               trans, reposRet>>
mainVars  == <<smiles_lines, line_num, grid, name, smiles, smilesRet, success_count,
               total_count>>
vars      == <<pc, fs, pool, convVars, reposVars, mainVars>>

----------------------------------------------------------------------------
(* Text helpers: Python str operations on sequences of characters.         *)

Min(a, b) == IF a < b THEN a ELSE b
Abs(a) == IF a < 0 THEN -a ELSE a

NUL == "NUL"                      \* the character chr(0)
Whitespace == {" ", "\n", "\t", "\r"}
DigitChars == <<"0", "1", "2", "3", "4", "5", "6", "7", "8", "9">>
IsDigit(c) == \E d \in 1..10 : DigitChars[d] = c
DigitVal(c) == (CHOOSE d \in 1..10 : DigitChars[d] = c) - 1

\* s[a:b] for 0 <= a, 0 <= b
Slice(s, a, b) == SubSeq(s, a + 1, Min(b, Len(s)))
\* s[a:]
SliceFrom(s, a) == SubSeq(s, a + 1, Len(s))
\* s.startswith(p)
StartsWith(s, p) == Len(s) >= Len(p) /\ SubSeq(s, 1, Len(p)) = p

RECURSIVE LStrip(_)
LStrip(s) == IF s # <<>> /\ Head(s) \in Whitespace THEN LStrip(Tail(s)) ELSE s
RECURSIVE RStrip(_)
RStrip(s) ==
    IF s # <<>> /\ s[Len(s)] \in Whitespace THEN RStrip(SubSeq(s, 1, Len(s) - 1)) ELSE s
\* s.strip()
Strip(s) == RStrip(LStrip(s))

\* str(n) for n >= 0
RECURSIVE StrOfNat(_)
StrOfNat(n) ==
    IF n < 10 THEN <<DigitChars[n + 1]>>
    ELSE StrOfNat(n \div 10) \o <<DigitChars[(n % 10) + 1]>>

\* int(s) for a sequence of digits (0 for the empty sequence)
RECURSIVE NatOfStr(_)
NatOfStr(s) ==
    IF s = <<>> THEN 0 ELSE 10 * NatOfStr(SubSeq(s, 1, Len(s) - 1)) + DigitVal(s[Len(s)])

----------------------------------------------------------------------------
(* The file system.                                                        *)

Exists(f, p) == p \in DOMAIN f
WriteFile(f, p, c) == [q \in (DOMAIN f) \cup {p} |-> IF q = p THEN c ELSE f[q]]
NoFiles == [q \in {} |-> <<>>]

\* f"{dir}/{name}{ext}" as a path value
Path(dir, nm, ext) == <<dir, nm, ext>>

----------------------------------------------------------------------------
(* subprocess.run(cmd, shell=True, check=True, capture_output=True):       *)
(* the outcomes of one call.  "exit0": returns; "nonzero": raises          *)
(* CalledProcessError; "other": raises another exception (ValueError for a  *)
(* NUL in cmd, OSError when the shell cannot be started, UnicodeDecodeError *)
(* when text=True and the output does not decode).                         *)

HasNul(s) == \E i \in 1..Len(s) : s[i] = NUL

RunOutcomes(cmd_has_nul) ==
    IF cmd_has_nul THEN {"other"} ELSE {"exit0", "nonzero", "other"}

\* What the external tool did to its output path before the call ended:
\* nothing, or left some content of pool there.
ToolEffects(contents, cmd_has_nul) ==
    IF cmd_has_nul THEN {[wrote |-> FALSE, content |-> <<>>]}
    ELSE {[wrote |-> FALSE, content |-> <<>>]}
         \cup {[wrote |-> TRUE, content |-> c] : c \in contents}

AfterTool(f, p, eff) == IF eff.wrote THEN WriteFile(f, p, eff.content) ELSE f

----------------------------------------------------------------------------
(* convert_pdb_to_pdbqt                                                    *)

\* the method tried after method k has failed; 4 is "return False"
NextMethodSkip(k) == IF k = 1 THEN 3 ELSE k + 1
NextMethod(k) == k + 1

ConvPc(k) == IF k = 1 THEN "conv1" ELSE IF k = 2 THEN "conv2"
             ELSE IF k = 3 THEN "conv3" ELSE "conv_ret"

\* the success check of one method: no exception and the artifact exists
MethodSucceeded(outcome, f, p) == outcome = "exit0" /\ Exists(f, p)

\* One try block: subprocess.run, the os.path.exists check, the except clause.
TryMethod(k) ==
    /\ pc = ConvPc(k)
    /\ \E outcome \in RunOutcomes(HasNul(pdb_file[2]) \/ HasNul(pdbqt_file[2])),
          eff \in ToolEffects(pool, HasNul(pdb_file[2]) \/ HasNul(pdbqt_file[2])) :
         LET fs1 == AfterTool(fs, pdbqt_file, eff)
             ok  == MethodSucceeded(outcome, fs1, pdbqt_file)
             nxt == NextMethod(k)
         IN /\ fs' = fs1
            /\ tried' = Append(tried, [method |-> k, outcome |-> outcome,
                                       wrote |-> eff.wrote, ok |-> ok])
            /\ IF ok THEN
                   /\ convRet' = "True"
                   /\ pc' = "conv_ret"
               ELSE IF outcome = "other" THEN
                   /\ convRet' = "raised"
                   /\ pc' = "conv_ret"
               ELSE
                   /\ convRet' = IF nxt > 3 THEN "False" ELSE convRet
                   /\ pc' = ConvPc(nxt)
    /\ UNCHANGED <<pool, pdb_file, pdbqt_file, reposVars, mainVars>>

Method1 == TryMethod(1)
Method2 == TryMethod(2)
Method3 == TryMethod(3)

----------------------------------------------------------------------------
(* Numbers.  A coordinate is an integer number of thousandths.  float(s)   *)
(* is modelled on the alphabet of digits, ".", "+", "-", whitespace and    *)
(* letters other than those of "inf", "nan", "e" and "_", with at most     *)
(* three digits after the point: on it the grammar below is Python's.      *)

COORD_X == 30
COORD_Y == 38
COORD_Z == 46
COORD_END == 54
FIELD_WIDTH == 8
DECIMALS == 3

RECURSIVE Pow10(_)
Pow10(n) == IF n = 0 THEN 1 ELSE 10 * Pow10(n - 1)
Scale == Pow10(DECIMALS)

Count(s, c) == Cardinality({i \in 1..Len(s) : s[i] = c})
IndexOf(s, c) == CHOOSE i \in 1..Len(s) : s[i] = c /\ \A j \in 1..(i - 1) : s[j] # c

\* float(s): [ok |-> FALSE] stands for ValueError
ParseFloat(s) ==
    LET t      == Strip(s)
        signed == t # <<>> /\ t[1] \in {"-", "+"}
        neg    == t # <<>> /\ t[1] = "-"
        body   == IF signed THEN Tail(t) ELSE t
        dots   == Count(body, ".")
        wellformed ==
            /\ \A i \in 1..Len(body) : IsDigit(body[i]) \/ body[i] = "."
            /\ dots <= 1
            /\ Len(body) - dots >= 1
        int    == IF dots = 1 THEN SubSeq(body, 1, IndexOf(body, ".") - 1) ELSE body
        frac   == IF dots = 1 THEN SubSeq(body, IndexOf(body, ".") + 1, Len(body)) ELSE <<>>
        frac3  == SubSeq(frac \o <<"0", "0", "0">>, 1, DECIMALS)
        mag    == NatOfStr(int) * Scale + NatOfStr(frac3)
    IN IF wellformed THEN [ok |-> TRUE, val |-> IF neg THEN -mag ELSE mag]
       ELSE [ok |-> FALSE, val |-> 0]

\* The decimal values "%.3f" may print for the float nearest num/den: the sign
\* of the exact value and its magnitude rounded to a thousandth.  Where the exact
\* value is a tie, or zero, the float's last bit decides; both outcomes are kept.
RoundedTruncating(num, den) ==
    {[neg |-> num < 0, mag |-> Abs(num) \div den]}
Rounded(num, den) ==
    LET a == Abs(num)
        q == a \div den
        r == a % den
    IN IF a = 0 THEN {[neg |-> FALSE, mag |-> 0], [neg |-> TRUE, mag |-> 0]}
       ELSE IF 2 * r < den THEN {[neg |-> num < 0, mag |-> q]}
       ELSE IF 2 * r > den THEN {[neg |-> num < 0, mag |-> q + 1]}
       ELSE {[neg |-> num < 0, mag |-> q], [neg |-> num < 0, mag |-> q + 1]}

Spaces(n) == [i \in 1..n |-> " "]
PadLeft(s, w) == IF Len(s) >= w THEN s ELSE Spaces(w - Len(s)) \o s
PadLeftZero(s, w) == IF Len(s) >= w THEN s ELSE [i \in 1..(w - Len(s)) |-> "0"] \o s

\* f'{x:8.3f}' for the rounded value v = [neg, mag]: at least 8 characters,
\* more when the number needs them
FormatCoord(v) ==
    LET body == (IF v.neg THEN <<"-">> ELSE <<>>)
                \o StrOfNat(v.mag \div Scale) \o <<".">>
                \o PadLeftZero(StrOfNat(v.mag % Scale), DECIMALS)
    IN PadLeft(body, FIELD_WIDTH)

----------------------------------------------------------------------------
(* reposition_ligand                                                       *)

HETATM == <<"H", "E", "T", "A", "T", "M">>
ATOM == <<"A", "T", "O", "M">>

IsAtomLine(line) == StartsWith(line, HETATM) \/ StartsWith(line, ATOM)

\* the three float(line[a:b]) of one line
ParseCoords(line) ==
    <<ParseFloat(Slice(line, COORD_X, COORD_Y)),
      ParseFloat(Slice(line, COORD_Y, COORD_Z)),
      ParseFloat(Slice(line, COORD_Z, COORD_END))>>

AtomIndices(ls) == SelectSeq([i \in 1..Len(ls) |-> i], LAMBDA i : IsAtomLine(ls[i]))

RECURSIVE SumAxis(_, _)
SumAxis(cs, ax) == IF cs = <<>> THEN 0 ELSE cs[1][ax] + SumAxis(Tail(cs), ax)

\* the characters of a file, its lines one after the other
RECURSIVE Flatten(_)
Flatten(ls) == IF ls = <<>> THEN <<>> ELSE Head(ls) \o Flatten(Tail(ls))

\* open(input_file, 'r').readlines() on the stored lines of a file: a
\* text-mode read splits at "\n", "\r\n" and "\r" and ends every line it splits
\* off with "\n"; the last line keeps a missing terminator
ReadLines(content) ==
    LET s == Flatten(content)
        Ends == {i \in 1..Len(s) :
                    \/ s[i] = "\n"
                    \/ s[i] = "\r" /\ ~(i < Len(s) /\ s[i + 1] = "\n")}
        n == Cardinality(Ends)
        End(k) == IF k = 0 THEN 0
                  ELSE CHOOSE e \in Ends : Cardinality({x \in Ends : x <= e}) = k
        Body(a, e) == IF e > a /\ s[e] = "\n" /\ s[e - 1] = "\r"
                      THEN SubSeq(s, a, e - 2)
                      ELSE SubSeq(s, a, e - 1)
        rest == SubSeq(s, End(n) + 1, Len(s))
    IN [k \in 1..n |-> Append(Body(End(k - 1) + 1, End(k)), "\n")]
       \o (IF rest = <<>> THEN <<>> ELSE <<rest>>)

\* with open(input_file) ... readlines(); a missing file raises, the except
\* clause prints and returns False
RpRead ==
    /\ pc = "rp_read"
    /\ IF Exists(fs, input_file)
       THEN /\ lines' = ReadLines(fs[input_file])
            /\ pc' = "rp_scan"
            /\ UNCHANGED reposRet
       ELSE /\ reposRet' = "False"
            /\ pc' = "rp_ret"
            /\ UNCHANGED lines
    /\ UNCHANGED <<fs, pool, convVars, input_file, output_file, target, coords,
                   atom_line_indices, trans, mainVars>>

\* the first loop: collect the atom lines and their coordinates; a float()
\* that raises ValueError ends the function in the except clause
RpScan ==
    /\ pc = "rp_scan"
    /\ LET idx == AtomIndices(lines)
           bad == \E k \in 1..Len(idx) : \E ax \in 1..3 : ~ParseCoords(lines[idx[k]])[ax].ok
       IN IF bad
          THEN /\ reposRet' = "False"
               /\ pc' = "rp_ret"
               /\ UNCHANGED <<coords, atom_line_indices>>
          ELSE /\ atom_line_indices' = idx
               /\ coords' = [k \in 1..Len(idx) |->
                               [ax \in 1..3 |-> ParseCoords(lines[idx[k]])[ax].val]]
               /\ pc' = "rp_check"
               /\ UNCHANGED reposRet
    /\ UNCHANGED <<fs, pool, convVars, input_file, output_file, target, lines,
                   trans, mainVars>>

NoCoordsNever(cs) == FALSE
NoCoords(cs) == cs = <<>>

\* if not coords: return False
RpCheckEmpty ==
    /\ pc = "rp_check"
    /\ IF NoCoords(coords)
       THEN /\ reposRet' = "False"
            /\ pc' = "rp_ret"
       ELSE /\ pc' = "rp_center"
            /\ UNCHANGED reposRet
    /\ UNCHANGED <<fs, pool, convVars, input_file, output_file, target, lines, coords,
                   atom_line_indices, trans, mainVars>>

\* center = sum / len; trans = target - center, kept exact as
\* (len * target - sum) / len
TranslationNoCentre(cs, tgt) ==
    [num |-> [ax \in 1..3 |-> Len(cs) * tgt[ax]], den |-> Len(cs)]
TranslationFirstAtom(cs, tgt) ==
    [num |-> [ax \in 1..3 |-> Len(cs) * tgt[ax] - Len(cs) * cs[1][ax]], den |-> Len(cs)]
Translation(cs, tgt) ==
    [num |-> [ax \in 1..3 |-> Len(cs) * tgt[ax] - SumAxis(cs, ax)], den |-> Len(cs)]

\* a division by zero is caught by the except clause
RpCentroid ==
    /\ pc = "rp_center"
    /\ IF Len(coords) = 0
       THEN /\ reposRet' = "False"
            /\ pc' = "rp_ret"
            /\ UNCHANGED trans
       ELSE /\ trans' = Translation(coords, target)
            /\ pc' = "rp_apply"
            /\ UNCHANGED reposRet
    /\ UNCHANGED <<fs, pool, convVars, input_file, output_file, target, lines, coords,
                   atom_line_indices, mainVars>>

\* the values float(line[a:b]) + trans may print as, for one line
MovedCoords(line, tr) ==
    LET p == ParseCoords(line)
    IN  [ax \in 1..3 |-> Rounded(tr.den * p[ax].val + tr.num[ax], tr.den)]

\* new_line = line[:30] + f'{x:8.3f}' + f'{y:8.3f}' + f'{z:8.3f}' + line[54:]
NewLine(line, v) ==
    Slice(line, 0, COORD_X) \o FormatCoord(v[1]) \o FormatCoord(v[2]) \o FormatCoord(v[3])
    \o SliceFrom(line, COORD_END)

\* lines[line_idx] = new_line for every line_idx of idx, the other lines kept
Rewrite(ls, idx, r) ==
    [i \in 1..Len(ls) |->
        IF \E k \in 1..Len(idx) : idx[k] = i
        THEN NewLine(ls[i], r[CHOOSE k \in 1..Len(idx) : idx[k] = i])
        ELSE ls[i]]

\* the second loop: rewrite every atom line
RpApply ==
    /\ pc = "rp_apply"
    /\ \E r \in [1..Len(atom_line_indices) ->
                   UNION {MovedCoords(lines[atom_line_indices[k]], trans)[1]
                          \X MovedCoords(lines[atom_line_indices[k]], trans)[2]
                          \X MovedCoords(lines[atom_line_indices[k]], trans)[3]
                          : k \in 1..Len(atom_line_indices)}] :
         /\ \A k \in 1..Len(atom_line_indices) : \A ax \in 1..3 :
               r[k][ax] \in MovedCoords(lines[atom_line_indices[k]], trans)[ax]
         /\ lines' = Rewrite(lines, atom_line_indices, r)
    /\ pc' = "rp_write"
    /\ UNCHANGED <<fs, pool, convVars, input_file, output_file, target, coords,
                   atom_line_indices, trans, reposRet, mainVars>>

\* with open(output_file, 'w') ... writelines(lines); return True
RpWrite ==
    /\ pc = "rp_write"
    /\ fs' = WriteFile(fs, output_file, lines)
    /\ reposRet' = "True"
    /\ pc' = "rp_ret"
    /\ UNCHANGED <<pool, convVars, input_file, output_file, target, lines, coords,
                   atom_line_indices, trans, mainVars>>

----------------------------------------------------------------------------
(* Inputs: PDBQT texts, grid centres, descriptor lines.                    *)

MaxLines == 2          \* descriptor lines of one batch
MaxAtoms == 2          \* atom lines of a generated PDBQT text

PadRight(s, w) == IF Len(s) >= w THEN s ELSE s \o Spaces(w - Len(s))

\* an 8-column coordinate field holding v thousandths
Field(v) ==
    PadLeft((IF v < 0 THEN <<"-">> ELSE <<>>) \o StrOfNat(Abs(v) \div 1000) \o <<".">>
            \o PadLeftZero(StrOfNat(Abs(v) % 1000), 3), 8)

LineTail == <<" ", " ", "1", ".", "0", "0", " ", "C", "\n">>
AtomLine(tag, x, y, z) ==
    PadRight(tag \o <<" ", " ", " ", "1", " ", "C">>, 30)
    \o Field(x) \o Field(y) \o Field(z) \o LineTail

RemarkLine == <<"R", "E", "M", "A", "R", "K", " ", "x", "\n">>
EndLine == <<"E", "N", "D", "\n">>

TwoAtoms == <<RemarkLine, AtomLine(HETATM, 0, 0, 0), AtomLine(ATOM, 2000, 2000, 2000),
              EndLine>>
ThreeAtoms == <<AtomLine(ATOM, 0, 0, 0), RemarkLine, AtomLine(ATOM, 0, 0, 0),
                AtomLine(HETATM, 1, 1000, -2)>>
\* x: the centroid lies half a thousandth off every atom, so each x ties
FourAtoms == <<AtomLine(HETATM, 0, 0, 1000), AtomLine(HETATM, 0, 0, 2000),
               AtomLine(ATOM, 0, 0, 3000), AtomLine(ATOM, 2, 1, 5000)>>
OneAtom == <<AtomLine(ATOM, 1234, -5678, 999999), EndLine>>
NoAtoms == <<RemarkLine, EndLine>>
EmptyText == <<>>
\* an atom line with a letter in its x field
NonNumeric ==
    <<AtomLine(HETATM, 0, 0, 0),
      PadRight(ATOM, 30) \o PadLeft(<<"X", ".", "0", "0", "0">>, 8) \o Field(0) \o Field(0)
      \o LineTail>>
\* an atom line of 50 characters whose z field is cut to "3.0\n"
ShortParsable ==
    <<AtomLine(HETATM, 0, 0, 0),
      PadRight(ATOM, 30) \o Field(1000) \o Field(2000) \o <<"3", ".", "0", "\n">>>>
\* an atom line of 41 characters: the z field is empty
ShortBroken ==
    <<AtomLine(HETATM, 0, 0, 0), PadRight(ATOM, 30) \o Field(1000) \o <<"2", ".", "\n">>>>

\* a text whose lines end with "\r\n", and one holding a lone "\r"
CrLf(line) == SubSeq(line, 1, Len(line) - 1) \o <<"\r", "\n">>
DosText == <<CrLf(RemarkLine), CrLf(AtomLine(HETATM, 0, 0, 0)), CrLf(EndLine)>>
CrText == <<AtomLine(HETATM, 0, 0, 0), <<"R", "E", "\r", "M", "\n">>>>

\* every text of 1..MaxAtoms well-formed atom lines over a few coordinates
CoordValues == {0, 2, 2000, -999000}
GeneratedLines == {AtomLine(HETATM, v, -v, v + 500) : v \in CoordValues}
GeneratedInputs == UNION {[1..n -> GeneratedLines] : n \in 1..MaxAtoms}

ReposInputs == {TwoAtoms, ThreeAtoms, FourAtoms, OneAtom, NoAtoms, EmptyText, NonNumeric,
                ShortParsable, ShortBroken, DosText, CrText} \cup GeneratedInputs

\* what an earlier run may have left at the output path
OlderOutput == NoAtoms

Targets == {<<10000, 10000, 10000>>, <<0, 0, 0>>, <<1000, 1000, 1000>>,
            <<10000000, -1000000, 500>>}

\* the targets that are the centroid of an input's own atoms, where that is a
\* whole number of thousandths
AtomCoords(c) ==
    LET ls == ReadLines(c)
        idx == AtomIndices(ls)
    IN [k \in 1..Len(idx) |-> [ax \in 1..3 |-> ParseCoords(ls[idx[k]])[ax]]]
HasCentroid(c) ==
    LET cs == AtomCoords(c)
    IN /\ Len(cs) > 0
       /\ \A k \in 1..Len(cs) : \A ax \in 1..3 : cs[k][ax].ok
       /\ \A ax \in 1..3 :
             SumAxis([k \in 1..Len(cs) |-> [a \in 1..3 |-> cs[k][a].val]], ax) % Len(cs) = 0
OwnCentroid(c) ==
    LET cs == AtomCoords(c)
    IN [ax \in 1..3 |->
          SumAxis([k \in 1..Len(cs) |-> [a \in 1..3 |-> cs[k][a].val]], ax) \div Len(cs)]
CentroidTargets == {OwnCentroid(c) : c \in {d \in ReposInputs : HasCentroid(d)}}

PdbText == <<EndLine>>

NameA == <<"a">>

\* descriptor lines as read by "for line in f"
DescLines ==
    {<<"C", " ", "a", "\n">>,
     <<" ", "C", "C", " ", " ", "a", " ", "x", "\n">>,
     <<"C", "O", "\n">>,
     <<"\n">>,
     <<" ", "\t", "\n">>,
     <<"#", " ", "C", "\n">>,
     <<" ", "#", "C", "\n">>,
     <<"C", NUL, " ", "b", "\n">>}

SmilesFiles == UNION {[1..n -> DescLines] : n \in 0..MaxLines}

----------------------------------------------------------------------------
(* main                                                                    *)

\* line.split()
RECURSIVE Split(_)
Split(s) ==
    LET t == LStrip(s)
    IN IF t = <<>> THEN <<>>
       ELSE LET n == IF \E i \in 1..Len(t) : t[i] \in Whitespace
                     THEN (CHOOSE i \in 1..Len(t) :
                              t[i] \in Whitespace /\ \A j \in 1..(i - 1) : t[j] \notin Whitespace) - 1
                     ELSE Len(t)
            IN <<SubSeq(t, 1, n)>> \o Split(SubSeq(t, n + 1, Len(t)))

\* if not line or line.startswith('#'): continue
SkippedEmptyOnly(stripped) == stripped = <<>>
Skipped(stripped) == stripped = <<>> \/ StartsWith(stripped, <<"#">>)

\* parts[1] if len(parts) > 1 else f"ligand_{line_num}"
ResolvedName(parts, n) ==
    IF Len(parts) > 1 THEN parts[2]
    ELSE <<"l", "i", "g", "a", "n", "d", "_">> \o StrOfNat(n)

ResetConv ==
    /\ tried' = <<>>
    /\ convRet' = "none"

ResetRepos ==
    /\ lines' = <<>>
    /\ coords' = <<>>
    /\ atom_line_indices' = <<>>
    /\ trans' = [num |-> <<0, 0, 0>>, den |-> 1]
    /\ reposRet' = "none"

\* the head of the for loop: read a line, skip it or parse it and count it;
\* after the last line, the summary
MainNextLine ==
    /\ pc = "loop"
    /\ line_num < Len(smiles_lines)
    /\ line_num' = line_num + 1
    /\ LET line == Strip(smiles_lines[line_num + 1])
           parts == Split(line)
       IN IF Skipped(line)
          THEN /\ pc' = "loop"
               /\ UNCHANGED <<name, smiles, smilesRet, total_count>>
          ELSE /\ smiles' = parts[1]
               /\ smilesRet' = "none"
               /\ name' = ResolvedName(parts, line_num + 1)
               /\ total_count' = total_count + 1
               /\ pc' = "step1"
    /\ UNCHANGED <<fs, pool, convVars, reposVars, smiles_lines, grid, success_count>>

MainSummary ==
    /\ pc = "loop"
    /\ line_num = Len(smiles_lines)
    /\ pc' = "done"
    /\ UNCHANGED <<fs, pool, convVars, reposVars, mainVars>>

\* "if not <stage>(...): continue" on the value a stage returned
StageFailedNever(ret) == FALSE
StageFailed(ret) == ret # "True"

\* convert_smiles_to_pdb: True on exit 0, False on CalledProcessError, any other
\* exception is not caught
SmilesResult(outcome) ==
    IF outcome = "exit0" THEN "True" ELSE IF outcome = "nonzero" THEN "False" ELSE "raised"

\* Step 1: convert_smiles_to_pdb returns True on exit 0, False on
\* CalledProcessError, and lets any other exception through; on True main goes
\* on to call convert_pdb_to_pdbqt
MainStep1 ==
    /\ pc = "step1"
    /\ LET nul == HasNul(smiles) \/ HasNul(name)
       IN \E outcome \in RunOutcomes(nul), eff \in ToolEffects({PdbText}, nul) :
            /\ fs' = AfterTool(fs, Path("pdb", name, ".pdb"), eff)
            /\ smilesRet' = SmilesResult(outcome)
            /\ IF SmilesResult(outcome) = "raised"
               THEN pc' = "crashed" /\ UNCHANGED convVars
               ELSE IF StageFailed(SmilesResult(outcome))
               THEN pc' = "loop" /\ UNCHANGED convVars
               ELSE /\ pdb_file' = Path("pdb", name, ".pdb")
                    /\ pdbqt_file' = Path("pdbqt", name, ".pdbqt")
                    /\ ResetConv
                    /\ pc' = "conv1"
    /\ UNCHANGED <<pool, reposVars, smiles_lines, line_num, grid, name, smiles,
                   success_count, total_count>>

\* Step 2: the result of convert_pdb_to_pdbqt; on True main goes on to call
\* reposition_ligand
MainStep2 ==
    /\ pc = "conv_ret"
    /\ IF convRet = "raised"
       THEN pc' = "crashed" /\ UNCHANGED reposVars
       ELSE IF StageFailed(convRet)
       THEN pc' = "loop" /\ UNCHANGED reposVars
       ELSE /\ input_file' = pdbqt_file
            /\ output_file' = Path("positioned", name, ".pdbqt")
            /\ target' = grid
            /\ ResetRepos
            /\ pc' = "rp_read"
    /\ UNCHANGED <<fs, pool, convVars, mainVars>>

\* Step 3: the result of reposition_ligand
MainStep3 ==
    /\ pc = "rp_ret"
    /\ success_count' = IF StageFailed(reposRet) THEN success_count ELSE success_count + 1
    /\ pc' = "loop"
    /\ UNCHANGED <<fs, pool, convVars, reposVars, smiles_lines, line_num, grid, name,
                   smiles, smilesRet, total_count>>

----------------------------------------------------------------------------
(* Specifications.                                                         *)

IdleConv ==
    /\ pdb_file = Path("pdb", NameA, ".pdb")
    /\ pdbqt_file = Path("pdbqt", NameA, ".pdbqt")
    /\ tried = <<>>
    /\ convRet = "none"

IdleRepos ==
    /\ input_file = Path("pdbqt", NameA, ".pdbqt")
    /\ output_file = Path("positioned", NameA, ".pdbqt")
    /\ lines = <<>>
    /\ coords = <<>>
    /\ atom_line_indices = <<>>
    /\ trans = [num |-> <<0, 0, 0>>, den |-> 1]
    /\ reposRet = "none"

IdleMain ==
    /\ smiles_lines = <<>>
    /\ line_num = 0
    /\ grid = <<0, 0, 0>>
    /\ name = <<>>
    /\ smiles = <<>>
    /\ smilesRet = "none"
    /\ success_count = 0
    /\ total_count = 0

\* main from its first statement, the output directories empty
Init ==
    /\ pc = "loop"
    /\ fs = NoFiles
    /\ pool = {TwoAtoms, NoAtoms}
    /\ IdleConv
    /\ IdleRepos
    /\ target = <<0, 0, 0>>
    /\ smiles_lines \in SmilesFiles
    /\ line_num = 0
    /\ grid = <<10000, 10000, 10000>>
    /\ name = <<>>
    /\ smiles = <<>>
    /\ smilesRet = "none"
    /\ success_count = 0
    /\ total_count = 0

Next ==
    \/ MainNextLine
    \/ MainSummary
    \/ MainStep1
    \/ Method1
    \/ Method2
    \/ Method3
    \/ MainStep2
    \/ RpRead
    \/ RpScan
    \/ RpCheckEmpty
    \/ RpCentroid
    \/ RpApply
    \/ RpWrite
    \/ MainStep3

Spec == Init /\ [][Next]_vars

\* one call of convert_pdb_to_pdbqt; the output path may hold an older file
InitConv ==
    /\ pc = "conv1"
    /\ pool = {TwoAtoms, NoAtoms}
    /\ fs \in {WriteFile(NoFiles, Path("pdb", NameA, ".pdb"), PdbText)}
              \cup {WriteFile(WriteFile(NoFiles, Path("pdb", NameA, ".pdb"), PdbText),
                              Path("pdbqt", NameA, ".pdbqt"), c) : c \in {TwoAtoms, NoAtoms}}
    /\ IdleConv
    /\ IdleRepos
    /\ target = <<0, 0, 0>>
    /\ IdleMain

NextConv ==
    \/ Method1
    \/ Method2
    \/ Method3

SpecConv == InitConv /\ [][NextConv]_vars

\* one call of reposition_ligand
InitRepos ==
    /\ pc = "rp_read"
    /\ pool = {}
    /\ \E withOld \in BOOLEAN :
         LET base == IF withOld
                     THEN WriteFile(NoFiles, Path("positioned", NameA, ".pdbqt"), OlderOutput)
                     ELSE NoFiles
         IN fs \in {base} \cup {WriteFile(base, Path("pdbqt", NameA, ".pdbqt"), c) :
                                   c \in ReposInputs}
    /\ IdleConv
    /\ IdleRepos
    /\ target \in Targets \cup CentroidTargets
    /\ IdleMain

NextRepos ==
    \/ RpRead
    \/ RpScan
    \/ RpCheckEmpty
    \/ RpCentroid
    \/ RpApply
    \/ RpWrite

SpecRepos == InitRepos /\ [][NextRepos]_vars

----------------------------------------------------------------------------
(* Properties of convert_pdb_to_pdbqt, checked under SpecConv.             *)

Failed(i) == ~tried[i].ok /\ tried[i].outcome # "other"

\* C1: the strategies are invoked in the order 1, 2, 3, each at most once and
\* only after every earlier one has failed; the function returns True at the
\* first strategy that succeeds and False only after all three have failed.
C1_FixedOrder ==
    /\ Len(tried) <= 3
    /\ \A i \in 1..Len(tried) : tried[i].method = i
    /\ \A i \in 1..(Len(tried) - 1) : Failed(i)
    /\ (\E i \in 1..Len(tried) : tried[i].ok) => convRet = "True"
    /\ convRet = "True" => Len(tried) >= 1 /\ tried[Len(tried)].ok
    /\ convRet = "False" => Len(tried) = 3 /\ \A i \in 1..3 : Failed(i)

\* the third strategy has succeeded after the first two failed
C1_Witness ==
    /\ pc = "conv_ret"
    /\ convRet = "True"
    /\ Len(tried) = 3
    /\ tried[1].outcome = "nonzero"
    /\ tried[2].outcome = "exit0"

\* C2: when the function returns True, the file at the output path was written
\* by the strategy that exited without error, not left there by an earlier
\* strategy or by an earlier run.
C2_NoOutputReuse ==
    convRet = "True" => tried[Len(tried)].wrote

\* C3: when all three strategies have failed, no file exists at the output path.
C3_NoFileAfterAllFailed ==
    convRet = "False" => ~Exists(fs, pdbqt_file)

\* C4: no failure of a single strategy leaves the function as an exception.
C4_NeverRaises ==
    convRet # "raised"

----------------------------------------------------------------------------
(* Properties of main, checked under Spec.                                 *)

\* C5: no failure of a stage of one molecule ends the batch: the loop is never
\* left by an exception, so every later line is read and the summary reached.
C5_BatchSurvives ==
    pc # "crashed"

----------------------------------------------------------------------------
(* Properties of reposition_ligand, checked under SpecRepos.  The input    *)
(* file is read, never written, so fs[input_file] is the input throughout. *)

Orig == fs[input_file]
Written == fs[output_file]
Succeeded == pc = "rp_ret" /\ reposRet = "True"

InAtoms == {i \in 1..Len(Orig) : StartsWith(Orig[i], HETATM) \/ StartsWith(Orig[i], ATOM)}
InCoord(i, ax) ==
    ParseFloat(Slice(Orig[i], COORD_X + FIELD_WIDTH * (ax - 1),
                     COORD_X + FIELD_WIDTH * ax)).val

RECURSIVE SumOver(_, _)
SumOver(S, f) ==
    IF S = {} THEN 0 ELSE LET i == CHOOSE j \in S : TRUE IN f[i] + SumOver(S \ {i}, f)

\* target minus centroid, times the number of atom lines
ExactVector(ax) ==
    LET X == [i \in InAtoms |-> InCoord(i, ax)]
    IN Cardinality(InAtoms) * target[ax] - SumOver(InAtoms, X)

\* the three numbers written after column 30 of a line, each ending three
\* digits after its decimal point: they fill columns 30-54 exactly when each is
\* 8 characters wide
TokenEnd(s) == IndexOf(s, ".") + DECIMALS
WrittenTokens(line) ==
    LET s1 == SliceFrom(line, COORD_X)
        s2 == SubSeq(s1, TokenEnd(s1) + 1, Len(s1))
        s3 == SubSeq(s2, TokenEnd(s2) + 1, Len(s2))
    IN <<SubSeq(s1, 1, TokenEnd(s1)), SubSeq(s2, 1, TokenEnd(s2)),
         SubSeq(s3, 1, TokenEnd(s3))>>
WrittenCoord(i, ax) == ParseFloat(WrittenTokens(Written[i])[ax]).val

\* C6 as stated: the centroid recomputed from the coordinates of the written
\* output is within 1e-6 (a thousandth of a thousandth) of the target.
C6_CentroidWithinMicro ==
    Succeeded =>
        \A ax \in 1..3 :
            LET W == [i \in InAtoms |-> WrittenCoord(i, ax)]
            IN 1000 * Abs(SumOver(InAtoms, W) - Cardinality(InAtoms) * target[ax])
                 <= Cardinality(InAtoms)

\* C6 amended: the centroid of the coordinates written to the output is within
\* 0.0005, half a unit of the third decimal, of the target.
C6_CentroidWithinHalfUnit ==
    Succeeded =>
        \A ax \in 1..3 :
            LET W == [i \in InAtoms |-> WrittenCoord(i, ax)]
            IN 2 * Abs(SumOver(InAtoms, W) - Cardinality(InAtoms) * target[ax])
                 <= Cardinality(InAtoms)

\* a file of three atoms has been repositioned and rounding moved its centroid
C6_Witness ==
    /\ Succeeded
    /\ Cardinality(InAtoms) = 3
    /\ \E ax \in 1..3 :
         LET W == [i \in InAtoms |-> WrittenCoord(i, ax)]
         IN SumOver(InAtoms, W) # 3 * target[ax]

\* C7 as stated: every written coordinate equals the input coordinate of its
\* line plus target minus centroid.
C7_ExactTranslation ==
    Succeeded =>
        \A i \in InAtoms : \A ax \in 1..3 :
            Cardinality(InAtoms) * WrittenCoord(i, ax)
              = Cardinality(InAtoms) * InCoord(i, ax) + ExactVector(ax)

\* C7 amended: every written coordinate equals the input coordinate of its line
\* plus the one vector target minus centroid of all atom lines, rounded to three
\* decimals (at most 0.0005 away); (0,0,0) and (2,2,2) with target (10,10,10)
\* become (9,9,9) and (11,11,11).
C7_RoundedTranslation ==
    Succeeded =>
        /\ \A i \in InAtoms : \A ax \in 1..3 :
              2 * Abs(Cardinality(InAtoms) * WrittenCoord(i, ax)
                      - (Cardinality(InAtoms) * InCoord(i, ax) + ExactVector(ax)))
                <= Cardinality(InAtoms)
        /\ (Orig = TwoAtoms /\ target = <<10000, 10000, 10000>>) =>
              \A ax \in 1..3 : WrittenCoord(2, ax) = 9000 /\ WrittenCoord(3, ax) = 11000

\* the two-atom example has been repositioned onto (10,10,10)
C7_Witness ==
    /\ Succeeded
    /\ Orig = TwoAtoms
    /\ target = <<10000, 10000, 10000>>
    /\ Written[2] = AtomLine(HETATM, 9000, 9000, 9000)
    /\ Written[3] = AtomLine(ATOM, 11000, 11000, 11000)

\* C8: every rewritten atom line keeps its length, its characters 0-29 and its
\* characters from 54 on; each rewritten field is 8 characters wide.
C8_LayoutPreserved ==
    Succeeded =>
        \A i \in InAtoms :
            /\ Len(Written[i]) = Len(Orig[i])
            /\ Slice(Written[i], 0, COORD_X) = Slice(Orig[i], 0, COORD_X)
            /\ SliceFrom(Written[i], COORD_END) = SliceFrom(Orig[i], COORD_END)
            /\ \A ax \in 1..3 : Len(WrittenTokens(Written[i])[ax]) = FIELD_WIDTH

\* an atom line shorter than 54 characters or with a non-numeric coordinate field
Malformed(line) ==
    \/ Len(line) < COORD_END
    \/ \E ax \in 1..3 :
         ~ParseFloat(Slice(line, COORD_X + FIELD_WIDTH * (ax - 1),
                           COORD_X + FIELD_WIDTH * ax)).ok

OutputUntouched ==
    Exists(fs, output_file) => fs[output_file] = OlderOutput

\* C9: a malformed atom line makes the whole call fail and nothing is written.
C9_MalformedFails ==
    (Exists(fs, input_file) /\ \E i \in InAtoms : Malformed(Orig[i])) =>
        /\ OutputUntouched
        /\ pc = "rp_ret" => reposRet = "False"

\* C10: with no HETATM/ATOM line in the input the call returns False without
\* reaching the centroid, the translation or the write.
C10_EmptyStructureFails ==
    (Exists(fs, input_file) /\ InAtoms = {}) =>
        /\ pc \notin {"rp_center", "rp_apply", "rp_write"}
        /\ trans = [num |-> <<0, 0, 0>>, den |-> 1]
        /\ OutputUntouched
        /\ pc = "rp_ret" => reposRet = "False"

\* a text of two lines, none an atom line, has been refused
C10_Witness ==
    /\ pc = "rp_ret"
    /\ reposRet = "False"
    /\ Exists(fs, input_file)
    /\ Len(Orig) = 2
    /\ InAtoms = {}

\* C11: after a successful call the output has as many lines as the input, in
\* the same order, and every line that is not an atom line is the input line
\* at the same position, character for character.
C11_OtherLinesKept ==
    Succeeded =>
        /\ Len(Written) = Len(Orig)
        /\ \A i \in 1..Len(Orig) :
              IF i \in InAtoms
              THEN Slice(Written[i], 0, COORD_X) = Slice(Orig[i], 0, COORD_X)
              ELSE Written[i] = Orig[i]

\* C12: when the target is the centroid of the input's own atoms, every written
\* coordinate is the input coordinate of its line, to within half a unit of the
\* third decimal.
C12_OwnCentroidIdentity ==
    (Succeeded /\ \A ax \in 1..3 : ExactVector(ax) = 0) =>
        \A i \in InAtoms : \A ax \in 1..3 :
            2 * Abs(WrittenCoord(i, ax) - InCoord(i, ax)) <= 1

\* the two-atom example, centroid (1,1,1), has been repositioned onto (1,1,1)
C12_Witness ==
    /\ Succeeded
    /\ Orig = TwoAtoms
    /\ target = <<1000, 1000, 1000>>
    /\ \A ax \in 1..3 : ExactVector(ax) = 0
    /\ Written[3] = Orig[3]

\* C13: the molecules of a batch share no file: when the first stage of a
\* molecule starts, none of its three files exists yet, since every file there
\* is was written for an earlier molecule of the batch.
C13_OwnFiles ==
    pc = "step1" =>
        /\ ~Exists(fs, Path("pdb", name, ".pdb"))
        /\ ~Exists(fs, Path("pdbqt", name, ".pdbqt"))
        /\ ~Exists(fs, Path("positioned", name, ".pdbqt"))

ConvStage == {"conv1", "conv2", "conv3", "conv_ret"}
ReposStage == {"rp_read", "rp_scan", "rp_check", "rp_center", "rp_apply", "rp_write",
               "rp_ret"}

\* the files of the stage that is running are those of the current molecule
StageOfCurrent ==
    /\ pc \in ConvStage =>
          /\ smilesRet = "True"
          /\ pdb_file = Path("pdb", name, ".pdb")
          /\ pdbqt_file = Path("pdbqt", name, ".pdbqt")
    /\ pc \in ReposStage =>
          /\ smilesRet = "True"
          /\ convRet = "True"
          /\ input_file = Path("pdbqt", name, ".pdbqt")
          /\ output_file = Path("positioned", name, ".pdbqt")

\* a step of main: a stage is entered from the stage before it, the next line
\* is read only from the head of the loop, and the head of the loop is reached
\* again only from a failed stage or from the end of the third
StageStep ==
    /\ (pc' = "step1") => pc = "loop"
    /\ (pc' \in ConvStage /\ pc \notin ConvStage) => (pc = "step1" /\ smilesRet' = "True")
    /\ (pc' \in ReposStage /\ pc \notin ReposStage) => (pc = "conv_ret" /\ convRet = "True")
    /\ (line_num' # line_num \/ name' # name \/ smiles' # smiles) => pc = "loop"
    /\ (pc' = "loop" /\ pc # "loop") =>
          \/ pc = "step1" /\ smilesRet' = "False"
          \/ pc = "conv_ret" /\ convRet = "False"
          \/ pc = "rp_ret"

\* C14: for each molecule the stages run in the order SMILES to PDB, PDB to
\* PDBQT, reposition; a stage starts only after the stage before it returned
\* True for the same molecule; no stage of the next molecule starts before the
\* current molecule has finished or been abandoned.
C14_StagesInOrder == [](StageOfCurrent) /\ [][StageStep]_vars

\* the second molecule of a batch has gone through its three stages
C14_Witness ==
    /\ pc = "rp_ret"
    /\ line_num = 2
    /\ total_count = 2
    /\ smilesRet = "True"
    /\ convRet = "True"
    /\ Len(tried) = 3

\* a descriptor line that is not blank and whose first visible character is not '#'
Counted(line) ==
    \E i \in 1..Len(line) :
        /\ line[i] \notin Whitespace
        /\ line[i] # "#"
        /\ \A j \in 1..(i - 1) : line[j] \in Whitespace

CountersInRange ==
    /\ 0 <= success_count
    /\ success_count <= total_count
    /\ total_count = Cardinality({i \in 1..line_num : Counted(smiles_lines[i])})

\* success_count grows by one exactly when the third stage of a molecule has
\* returned True after the first two did, and never otherwise
CountsSuccess ==
    success_count' = success_count
        + (IF pc = "rp_ret" /\ smilesRet = "True" /\ convRet = "True" /\ reposRet = "True"
           THEN 1 ELSE 0)

\* C15: in every state 0 <= success_count <= total_count, total_count is the
\* number of non-empty, non-'#' lines read so far, and success_count counts the
\* molecules whose three stages all returned True.
C15_Counters == [](CountersInRange) /\ [][CountsSuccess]_vars

\* a skipped line and a molecule prepared with success have been read
C15_Witness ==
    /\ pc = "loop"
    /\ line_num = 2
    /\ ~Counted(smiles_lines[1])
    /\ total_count = 1
    /\ success_count = 1

\* C16: every call ends, after one to three invocations, with True (Success) or
\* False (AllFailed): while it has not ended a next invocation is possible, the
\* strategies invoked so far are 1, 2, ... in this order, and the end is one of
\* the two outcomes.
C16_EndsInSuccessOrAllFailed ==
    /\ \A i \in 1..Len(tried) : tried[i].method = i
    /\ Len(tried) <= 3
    /\ pc # "conv_ret" => ENABLED NextConv
    /\ pc = "conv_ret" => (Len(tried) >= 1 /\ convRet \in {"True", "False"})

====
